---- MODULE Spec2Model ----
(***************************************************************************)
(* ContractClarity backend (backend/app.py): the one-time-code store, the  *)
(* JWT token service with its blacklist, the refresh / logout handlers and *)
(* the in-memory analysis task registry, as state machines.                *)
(***************************************************************************)
EXTENDS Integers, Sequences, FiniteSets, TLC

\* ------------------------------------------------------------------------
\* Configuration (app.py lines 34-38)
\* ------------------------------------------------------------------------
ACCESS_TOKEN_HOURS == 2
REFRESH_TOKEN_DAYS == 30
OTP_EXPIRE_SECONDS == 300
OTP_MAX_ATTEMPTS == 5
OTP_RATE_LIMIT_SEC == 60

\* ------------------------------------------------------------------------
\* Bounds of the model
\* ------------------------------------------------------------------------
\* how many times the wall clock is advanced in one behaviour
MaxTicks == 2
\* how many _otp_verify calls are followed after one successful _otp_generate
MaxTrail == 7

\* how many analysis jobs are started in one behaviour
MaxJobs == 1

\* how many tokens are issued in one behaviour (they are issued two at a time)
MaxTokens == 4

\* serving threads that handle requests at the same time
Threads == {"t1", "t2"}

\* contact identifiers that pass the phone pattern of auth_send_otp
Phones == {"13800000000"}
\* values random.randint(0, 999999) may return
RandInts == {7, 123456}

VARIABLES
  now,        \* _now_ts(): seconds since the epoch, as the handlers read it
  ticks,      \* number of clock advances so far (bounded by MaxTicks)
  otp_store,  \* _otp_store: phone -> [code, expiry, attempts, issued_at]
  otp_out,    \* what the _otp_generate / _otp_verify call made at time now, if
              \* any, returned or raised
  otp_hist,   \* history: per phone the last two issue times and the outcomes
              \* of the _otp_verify calls made since the last issue
  req,        \* per serving thread: the send-otp / login-sms request it is
              \* handling and how far it has got
  token_bl,   \* _token_bl: the jti values of the revoked tokens
  users,      \* the ids of the rows of table users
  gone,       \* the ids of the rows deleted from table users
  issued,     \* the tokens handed out so far (they live with the clients)
  auth_out,   \* the answer of the auth request handled at time now, if any
  auth_hist,  \* history: the tokens revoke_token was called on while they
              \* decoded, and the refresh tokens a refresh has rotated
  tasks,      \* tasks: job id -> record of the analysis job
  runner,     \* per job: where its run_deep_analysis thread stands
  job_out     \* the answer of the last /analyze or /status request

otpvars == <<otp_store, otp_out, otp_hist, req>>
authvars == <<token_bl, users, gone, issued, auth_out, auth_hist>>
jobvars == <<tasks, runner, job_out>>
vars == <<now, ticks, otp_store, otp_out, otp_hist, req,
          token_bl, users, gone, issued, auth_out, auth_hist,
          tasks, runner, job_out>>

\* ------------------------------------------------------------------------
\* One-time codes (app.py lines 177-220)
\* ------------------------------------------------------------------------

\* f"{n:06d}": the six decimal digits of n, leading zeros kept
Format06(n) == [i \in 1..6 |-> (n \div (10 ^ (6 - i))) % 10]

\* the codes a client may submit: every code that can be issued, and the
\* digits of 7 without the zero padding
SubmittedCodes == {Format06(n) : n \in RandInts} \cup {<<7>>}

\* dict assignment d[k] = v and del d[k]
DictPut(d, k, v) == [x \in DOMAIN d \cup {k} |-> IF x = k THEN v ELSE d[x]]
DictDel(d, k) == [x \in DOMAIN d \ {k} |-> d[x]]

NoOut == [op |-> "none", phone |-> "", result |-> "", remaining |-> 0, code |-> <<>>]

\* mutant of RateLimited: the boundary second still counts as too early
RateLimited_inclusive(existing, t) == t - existing.issued_at <= OTP_RATE_LIMIT_SEC

\* mutant of RateLimited: the comparison points the other way
RateLimited_reversed(existing, t) == t - existing.issued_at > OTP_RATE_LIMIT_SEC

\* line 186: now - existing.get("issued_at", 0) < OTP_RATE_LIMIT_SEC
RateLimited(existing, t) == t - existing.issued_at < OTP_RATE_LIMIT_SEC

\* mutant of GenerateCS: a refused request restarts the resend interval
GenerateCS_extends(store, phone, t, n) ==
  IF phone \in DOMAIN store /\ RateLimited(store[phone], t)
  THEN [store |-> [store EXCEPT ![phone].issued_at = t],
        out |-> [op |-> "generate", phone |-> phone, result |-> "RateLimited",
                 remaining |-> OTP_RATE_LIMIT_SEC - (t - store[phone].issued_at),
                 code |-> <<>>]]
  ELSE [store |-> DictPut(store, phone,
                     [code |-> Format06(n), expiry |-> t + OTP_EXPIRE_SECONDS,
                      attempts |-> 0, issued_at |-> t]),
        out |-> [op |-> "generate", phone |-> phone, result |-> "ok",
                 remaining |-> 0, code |-> Format06(n)]]

\* The critical section of _otp_generate (lines 184-195) on store with the
\* time t read at line 183 and the random number n: the new store and the result.
GenerateCS(store, phone, t, n) ==
  IF phone \in DOMAIN store /\ RateLimited(store[phone], t)
  THEN [store |-> store,
        out |-> [op |-> "generate", phone |-> phone, result |-> "RateLimited",
                 remaining |-> OTP_RATE_LIMIT_SEC - (t - store[phone].issued_at),
                 code |-> <<>>]]
  ELSE [store |-> DictPut(store, phone,
                     [code |-> Format06(n), expiry |-> t + OTP_EXPIRE_SECONDS,
                      attempts |-> 0, issued_at |-> t]),
        out |-> [op |-> "generate", phone |-> phone, result |-> "ok",
                 remaining |-> 0, code |-> Format06(n)]]

\* mutant of ConsumeOnMatch: the matched record is left in the store
ConsumeOnMatch_keep(store, phone) == store

\* line 219: del _otp_store[phone] once the code has matched
ConsumeOnMatch(store, phone) == DictDel(store, phone)

\* mutant of OtpExpired: the expiry second itself counts as expired
OtpExpired_inclusive(record, t) == t >= record.expiry

\* line 209: now > record["expiry"]
OtpExpired(record, t) == t > record.expiry

\* mutant of AttemptsExceeded: the limit is hit one attempt later
AttemptsExceeded_late(attempts) == attempts > OTP_MAX_ATTEMPTS + 1

\* mutant of AttemptsExceeded: the limit is hit one attempt earlier
AttemptsExceeded_early(attempts) == attempts >= OTP_MAX_ATTEMPTS

\* line 213: record["attempts"] > OTP_MAX_ATTEMPTS, after the increment of line 212
AttemptsExceeded(attempts) == attempts > OTP_MAX_ATTEMPTS

\* mutant of VerifyCS: the attempts left are counted before the increment
VerifyCS_remaining_before(store, phone, code, t) ==
  LET vout(res, rem) == [op |-> "verify", phone |-> phone, result |-> res,
                         remaining |-> rem, code |-> <<>>]
  IN
  IF phone \notin DOMAIN store
  THEN [store |-> store, out |-> vout("NotFound", 0)]
  ELSE LET record == store[phone]
           bumped == [record EXCEPT !.attempts = record.attempts + 1]
       IN
       IF OtpExpired(record, t)
       THEN [store |-> DictDel(store, phone), out |-> vout("Expired", 0)]
       ELSE IF AttemptsExceeded(bumped.attempts)
       THEN [store |-> DictDel(store, phone), out |-> vout("TooManyAttempts", 0)]
       ELSE IF bumped.code # code
       THEN [store |-> DictPut(store, phone, bumped),
             out |-> vout("CodeMismatch", OTP_MAX_ATTEMPTS - record.attempts)]
       ELSE [store |-> ConsumeOnMatch(store, phone), out |-> vout("ok", 0)]

\* The critical section of _otp_verify (lines 205-219) with the time t read at
\* line 204: the new store and the result (the ValueError raised, or "ok").
VerifyCS(store, phone, code, t) ==
  LET vout(res, rem) == [op |-> "verify", phone |-> phone, result |-> res,
                         remaining |-> rem, code |-> <<>>]
  IN
  IF phone \notin DOMAIN store
  THEN [store |-> store, out |-> vout("NotFound", 0)]
  ELSE LET record == store[phone]
           bumped == [record EXCEPT !.attempts = record.attempts + 1]
       IN
       IF OtpExpired(record, t)
       THEN [store |-> DictDel(store, phone), out |-> vout("Expired", 0)]
       ELSE IF AttemptsExceeded(bumped.attempts)
       THEN [store |-> DictDel(store, phone), out |-> vout("TooManyAttempts", 0)]
       ELSE IF bumped.code # code
       THEN [store |-> DictPut(store, phone, bumped),
             out |-> vout("CodeMismatch", OTP_MAX_ATTEMPTS - bumped.attempts)]
       ELSE [store |-> ConsumeOnMatch(store, phone), out |-> vout("ok", 0)]

\* History kept for the properties, not program state: prev and last are the
\* times of the last two successful _otp_generate calls (-1: none), between
\* the number of _otp_verify calls made between them, trail what each
\* _otp_verify call since the last one found and answered.
NoHist == [prev |-> -1, last |-> -1, between |-> 0, trail |-> <<>>]

\* _otp_generate(phone), called by one request at a time
otp_generate(phone, n) ==
  LET r == GenerateCS(otp_store, phone, now, n) IN
  /\ otp_store' = r.store
  /\ otp_out' = r.out
  /\ otp_hist' = IF r.out.result = "ok"
                 THEN [otp_hist EXCEPT ![phone] =
                         [prev |-> otp_hist[phone].last, last |-> now,
                          between |-> Len(otp_hist[phone].trail), trail |-> <<>>]]
                 ELSE otp_hist
  /\ UNCHANGED <<jobvars, now, ticks, req, authvars>>

\* _otp_verify(phone, code), called by one request at a time
otp_verify(phone, code) ==
  LET r == VerifyCS(otp_store, phone, code, now)
      stored == phone \in DOMAIN otp_store
      correct == stored /\ otp_store[phone].code = code
      expired == stored /\ OtpExpired(otp_store[phone], now)
  IN
  /\ Len(otp_hist[phone].trail) < MaxTrail
  /\ otp_store' = r.store
  /\ otp_out' = r.out
  /\ otp_hist' = [otp_hist EXCEPT ![phone].trail =
                    Append(@, [result |-> r.out.result, correct |-> correct,
                               expired |-> expired])]
  /\ UNCHANGED <<jobvars, now, ticks, req, authvars>>

\* ------------------------------------------------------------------------
\* Tokens (app.py lines 107-173)
\* ------------------------------------------------------------------------

\* user ids: the n-th row ever inserted into table users gets the id n (line
\* 248 draws a uuid4, which no earlier row has)
Users == {1, 2}
FreshUserId(rows, deleted) == Cardinality(rows \cup deleted) + 1
Kinds == {"access", "refresh"}

\* lifetimes in seconds, lines 118 and 130
TokenTtl(kind) ==
  IF kind = "access" THEN ACCESS_TOKEN_HOURS * 3600 ELSE REFRESH_TOKEN_DAYS * 86400

\* secrets.token_hex(16): a value no token carries yet
FreshJti(toks) == Cardinality(toks)

IssueToken_access_only(user_id, kind, t, jti) ==
  [sub |-> user_id, jti |-> jti, type |-> "access", iat |-> t,
   exp |-> t + TokenTtl(kind), key |-> "JWT_SECRET"]

\* issue_access_token / issue_refresh_token at time t: the signed payload
IssueToken(user_id, kind, t, jti) ==
  [sub |-> user_id, jti |-> jti, type |-> kind, iat |-> t,
   exp |-> t + TokenTtl(kind), key |-> "JWT_SECRET"]

\* what a client sends that no issue_*_token call produced: nothing at all
\* (no Authorization header, an empty refresh_token field)
NoToken == [sub |-> 0, jti |-> -1, type |-> "", iat |-> 0, exp |-> 0, key |-> "absent"]

\* ... or a token signed with another key
ForgedToken == [sub |-> 1, jti |-> -2, type |-> "access", iat |-> 0,
                exp |-> TokenTtl("refresh"), key |-> "forged"]

\* pyjwt.decode(token, JWT_SECRET, algorithms=["HS256"]) at time t (lines 137
\* and 149): the signature is checked first, then the exp claim
JwtDecode(tok, t) ==
  IF tok.key # "JWT_SECRET" THEN "InvalidSignatureError"
  ELSE IF t > tok.exp THEN "ExpiredSignatureError"
  ELSE "ok"

VerifyToken_no_blacklist(tok, expected_type, t, bl) ==
  IF JwtDecode(tok, t) # "ok" THEN JwtDecode(tok, t)
  ELSE IF tok.type # expected_type THEN "TypeMismatch"
  ELSE "ok"

\* verify_token(token, expected_type) at time t with blacklist bl: "ok" (the
\* payload is returned) or the exception raised
VerifyToken(tok, expected_type, t, bl) ==
  IF JwtDecode(tok, t) # "ok" THEN JwtDecode(tok, t)
  ELSE IF tok.type # expected_type THEN "TypeMismatch"
  ELSE IF tok.jti \in bl THEN "Revoked"
  ELSE "ok"

\* the failures raised as pyjwt.InvalidTokenError proper (lines 139, 142) or
\* as its subclass for a bad signature; ExpiredSignatureError is caught first
InvalidTokenErrors == {"InvalidSignatureError", "TypeMismatch", "Revoked"}

\* mutant of RevokeTry: the blacklist keeps only the last revoked jti
RevokeTry_replaces(bl, tok, t) ==
  IF JwtDecode(tok, t) = "ok" THEN [bl |-> {tok.jti}, exc |-> "none"]
  ELSE [bl |-> bl, exc |-> JwtDecode(tok, t)]

\* the try block of revoke_token at time t (lines 149-151): the blacklist it
\* leaves and the exception it ends with, "none" when it runs through
RevokeTry(bl, tok, t) ==
  IF JwtDecode(tok, t) = "ok" THEN [bl |-> bl \cup {tok.jti}, exc |-> "none"]
  ELSE [bl |-> bl, exc |-> JwtDecode(tok, t)]

\* mutant of RevokeOutcome: the exception of the try block propagates
RevokeOutcome_propagates(bl, tok, t) == RevokeTry(bl, tok, t)

\* revoke_token with its handler, except Exception: pass (lines 152-153)
RevokeOutcome(bl, tok, t) == [RevokeTry(bl, tok, t) EXCEPT !.exc = "none"]

RevokeToken_noop(bl, tok, t) == bl

\* revoke_token(token) at time t: the new blacklist (lines 148-153)
RevokeToken(bl, tok, t) == RevokeOutcome(bl, tok, t).bl

\* op, status and error: the handler and its HTTP answer; sub: the user the
\* handler acted for; access and refresh: the tokens in the answer; replay:
\* the refresh token of the request when an earlier auth_refresh rotated it
NoAuthOut == [op |-> "none", status |-> 0, error |-> "", message |-> "", sub |-> 0,
              access |-> NoToken, refresh |-> NoToken, replay |-> NoToken]

\* the message field of an invalid_token answer: str(e) of the
\* InvalidTokenError raised by verify_token (lines 170 and 797)
TokenMessage(tok, expected_type, t, bl) ==
  IF tok.key # "absent" /\ VerifyToken(tok, expected_type, t, bl) \in InvalidTokenErrors
  THEN VerifyToken(tok, expected_type, t, bl)
  ELSE ""

NoAuthHist == [revoked |-> {}, rotated |-> {}]

InitAuth ==
  /\ token_bl = {}
  /\ users = {}
  /\ gone = {}
  /\ issued = {}
  /\ auth_out = NoAuthOut
  /\ auth_hist = NoAuthHist

\* what a client can present
Presentable == issued \cup {ForgedToken, NoToken}

\* history: revoke_token was called on tok at time t
NoteRevoke(h, tok, t) ==
  IF JwtDecode(tok, t) = "ok" THEN [h EXCEPT !.revoked = @ \cup {tok}] ELSE h

\* The end of a successful login or registration (lines 696-709, 735-742,
\* 767-779): the row of the user exists or is created, a pair is issued.
Login(u) ==
  LET a == IssueToken(u, "access", now, FreshJti(issued))
      r == IssueToken(u, "refresh", now, FreshJti(issued \cup {a}))
  IN
  /\ Cardinality(issued) + 2 <= MaxTokens
  /\ u \in users \cup {FreshUserId(users, gone)}
  /\ users' = users \cup {u}
  /\ issued' = issued \cup {a, r}
  /\ auth_out' = [NoAuthOut EXCEPT !.op = "login", !.status = 200, !.sub = u,
                                   !.access = a, !.refresh = r]
  /\ UNCHANGED <<jobvars, now, ticks, otpvars, token_bl, gone, auth_hist>>

\* mutant of RequireAuth: an expired token is answered like an invalid one
RequireAuth_expired_as_invalid(tok, t, bl) ==
  IF tok.key = "absent" THEN [status |-> 401, error |-> "missing_token"]
  ELSE IF VerifyToken(tok, "access", t, bl) = "ok" THEN [status |-> 200, error |-> ""]
  ELSE [status |-> 401, error |-> "invalid_token"]

\* The answer of require_auth (lines 161-172) for the header carrying tok
RequireAuth(tok, t, bl) ==
  IF tok.key = "absent" THEN [status |-> 401, error |-> "missing_token"]
  ELSE IF VerifyToken(tok, "access", t, bl) = "ExpiredSignatureError"
  THEN [status |-> 401, error |-> "token_expired"]
  ELSE IF VerifyToken(tok, "access", t, bl) \in InvalidTokenErrors
  THEN [status |-> 401, error |-> "invalid_token"]
  ELSE [status |-> 200, error |-> ""]

\* GET /auth/me (lines 815-823)
AuthMe(tok) ==
  LET g == RequireAuth(tok, now, token_bl) IN
  /\ auth_out' =
       IF g.status # 200
       THEN [NoAuthOut EXCEPT !.op = "me", !.status = g.status, !.error = g.error,
                             !.message = TokenMessage(tok, "access", now, token_bl)]
       ELSE IF tok.sub \notin users
       THEN [NoAuthOut EXCEPT !.op = "me", !.status = 404, !.error = "user_not_found",
                              !.sub = tok.sub]
       ELSE [NoAuthOut EXCEPT !.op = "me", !.status = 200, !.sub = tok.sub]
  /\ UNCHANGED <<jobvars, now, ticks, otpvars, token_bl, users, gone, issued, auth_hist>>

\* mutant of RefreshAnswer: the token is verified as an access token
RefreshAnswer_any_kind(tok, t, bl, rows) ==
  IF tok.key = "absent" THEN [status |-> 400, error |-> "missing_token"]
  ELSE IF VerifyToken(tok, tok.type, t, bl) = "ExpiredSignatureError"
  THEN [status |-> 401, error |-> "refresh_expired"]
  ELSE IF VerifyToken(tok, tok.type, t, bl) \in InvalidTokenErrors
  THEN [status |-> 401, error |-> "invalid_token"]
  ELSE IF tok.sub \notin rows
  THEN [status |-> 404, error |-> "user_not_found"]
  ELSE [status |-> 200, error |-> ""]

\* The answer auth_refresh gives for tok before it changes anything
\* (lines 788-803)
RefreshAnswer(tok, t, bl, rows) ==
  IF tok.key = "absent" THEN [status |-> 400, error |-> "missing_token"]
  ELSE IF VerifyToken(tok, "refresh", t, bl) = "ExpiredSignatureError"
  THEN [status |-> 401, error |-> "refresh_expired"]
  ELSE IF VerifyToken(tok, "refresh", t, bl) \in InvalidTokenErrors
  THEN [status |-> 401, error |-> "invalid_token"]
  ELSE IF tok.sub \notin rows
  THEN [status |-> 404, error |-> "user_not_found"]
  ELSE [status |-> 200, error |-> ""]

\* mutant of Refresh: the token is revoked before the user is looked up
Refresh_revokes_early(tok) ==
  LET g == RefreshAnswer(tok, now, token_bl, users)
      a == IssueToken(tok.sub, "access", now, FreshJti(issued))
      r == IssueToken(tok.sub, "refresh", now, FreshJti(issued \cup {a}))
      again == IF tok \in auth_hist.rotated THEN tok ELSE NoToken
  IN
  IF g.status # 200
  THEN /\ auth_out' = [NoAuthOut EXCEPT !.op = "refresh", !.status = g.status,
                                        !.error = g.error, !.replay = again,
                             !.message = TokenMessage(tok, "refresh", now, token_bl)]
       /\ token_bl' = IF g.status = 404 THEN RevokeToken(token_bl, tok, now)
                      ELSE token_bl
       /\ UNCHANGED <<jobvars, now, ticks, otpvars, users, gone, issued, auth_hist>>
  ELSE /\ Cardinality(issued) + 2 <= MaxTokens
       /\ token_bl' = RevokeToken(token_bl, tok, now)
       /\ issued' = issued \cup {a, r}
       /\ auth_out' = [NoAuthOut EXCEPT !.op = "refresh", !.status = 200,
                                        !.sub = tok.sub, !.replay = again,
                                        !.access = a, !.refresh = r]
       /\ auth_hist' = [NoteRevoke(auth_hist, tok, now) EXCEPT !.rotated = @ \cup {tok}]
       /\ UNCHANGED <<jobvars, now, ticks, otpvars, users, gone>>

\* POST /auth/refresh handled without interruption (lines 782-812)
Refresh(tok) ==
  LET g == RefreshAnswer(tok, now, token_bl, users)
      a == IssueToken(tok.sub, "access", now, FreshJti(issued))
      r == IssueToken(tok.sub, "refresh", now, FreshJti(issued \cup {a}))
      again == IF tok \in auth_hist.rotated THEN tok ELSE NoToken
  IN
  IF g.status # 200
  THEN /\ auth_out' = [NoAuthOut EXCEPT !.op = "refresh", !.status = g.status,
                                        !.error = g.error, !.replay = again,
                             !.message = TokenMessage(tok, "refresh", now, token_bl)]
       /\ UNCHANGED <<jobvars, now, ticks, otpvars, token_bl, users, gone, issued, auth_hist>>
  ELSE /\ Cardinality(issued) + 2 <= MaxTokens
       /\ token_bl' = RevokeToken(token_bl, tok, now)
       /\ issued' = issued \cup {a, r}
       /\ auth_out' = [NoAuthOut EXCEPT !.op = "refresh", !.status = 200,
                                        !.sub = tok.sub, !.replay = again,
                                        !.access = a, !.refresh = r]
       /\ auth_hist' = [NoteRevoke(auth_hist, tok, now) EXCEPT !.rotated = @ \cup {tok}]
       /\ UNCHANGED <<jobvars, now, ticks, otpvars, users, gone>>

\* mutant of Logout: the refresh token of the body is not revoked
Logout_access_only(tok, rt) ==
  LET g == RequireAuth(tok, now, token_bl) IN
  IF g.status # 200
  THEN /\ auth_out' = [NoAuthOut EXCEPT !.op = "logout", !.status = g.status,
                                        !.error = g.error,
                             !.message = TokenMessage(tok, "access", now, token_bl)]
       /\ UNCHANGED <<jobvars, now, ticks, otpvars, token_bl, users, gone, issued, auth_hist>>
  ELSE /\ token_bl' = RevokeToken(token_bl, tok, now)
       /\ auth_hist' = IF rt.key = "absent" THEN NoteRevoke(auth_hist, tok, now)
                       ELSE NoteRevoke(NoteRevoke(auth_hist, tok, now), rt, now)
       /\ auth_out' = [NoAuthOut EXCEPT !.op = "logout", !.status = 200,
                                        !.sub = tok.sub]
       /\ UNCHANGED <<jobvars, now, ticks, otpvars, users, gone, issued>>

\* POST /auth/logout (lines 826-835); rt is the refresh_token field of the
\* body, NoToken when the body has none
Logout(tok, rt) ==
  LET g == RequireAuth(tok, now, token_bl)
      bl1 == RevokeToken(token_bl, tok, now)
      h1 == NoteRevoke(auth_hist, tok, now)
  IN
  IF g.status # 200
  THEN /\ auth_out' = [NoAuthOut EXCEPT !.op = "logout", !.status = g.status,
                                        !.error = g.error,
                             !.message = TokenMessage(tok, "access", now, token_bl)]
       /\ UNCHANGED <<jobvars, now, ticks, otpvars, token_bl, users, gone, issued, auth_hist>>
  ELSE /\ token_bl' = IF rt.key = "absent" THEN bl1 ELSE RevokeToken(bl1, rt, now)
       /\ auth_hist' = IF rt.key = "absent" THEN h1 ELSE NoteRevoke(h1, rt, now)
       /\ auth_out' = [NoAuthOut EXCEPT !.op = "logout", !.status = 200,
                                        !.sub = tok.sub]
       /\ UNCHANGED <<jobvars, now, ticks, otpvars, users, gone, issued>>

\* DELETE /auth/account (lines 910-919)
DeleteAccount(tok) ==
  LET g == RequireAuth(tok, now, token_bl) IN
  IF g.status # 200
  THEN /\ auth_out' = [NoAuthOut EXCEPT !.op = "delete", !.status = g.status,
                                        !.error = g.error,
                             !.message = TokenMessage(tok, "access", now, token_bl)]
       /\ UNCHANGED <<jobvars, now, ticks, otpvars, token_bl, users, gone, issued, auth_hist>>
  ELSE /\ users' = users \ {tok.sub}
       /\ gone' = gone \cup {tok.sub}
       /\ token_bl' = RevokeToken(token_bl, tok, now)
       /\ auth_hist' = NoteRevoke(auth_hist, tok, now)
       /\ auth_out' = [NoAuthOut EXCEPT !.op = "delete", !.status = 200,
                                        !.sub = tok.sub]
       /\ UNCHANGED <<jobvars, now, ticks, otpvars, issued>>

\* the instants at which a stored challenge changes its answer
OtpTimes ==
  UNION {{otp_store[p].issued_at + OTP_RATE_LIMIT_SEC - 1,
          otp_store[p].issued_at + OTP_RATE_LIMIT_SEC,
          otp_store[p].expiry,
          otp_store[p].expiry + 1} : p \in DOMAIN otp_store}

\* the instants around which an issued token expires
TokenTimes == UNION {{tok.exp, tok.exp + 1} : tok \in issued}

NextTimes == {now + 1} \cup {t \in OtpTimes \cup TokenTimes : t > now}

\* the wall clock moves on between two requests; the answer to the last
\* request has been delivered by then
Tick ==
  /\ ticks < MaxTicks
  /\ \E t \in NextTimes : now' = t
  /\ ticks' = ticks + 1
  /\ otp_out' = NoOut
  /\ auth_out' = NoAuthOut
  /\ UNCHANGED <<jobvars, otp_store, otp_hist, req, token_bl, users, gone, issued, auth_hist>>

\* _otp_store.get(phone) when nothing is stored for the phone (line 206)
NoRecord == [code |-> <<>>, expiry |-> -1, attempts |-> -1, issued_at |-> -1]

\* A serving thread before its request arrives. pre: whether a challenge for
\* the phone was stored when the request read the clock, and seen: that
\* challenge; with: the threads whose request was in flight at that moment.
IdleReq == [pc |-> "idle", op |-> "none", phone |-> "", t |-> 0, code |-> <<>>,
            result |-> "", remaining |-> 0, pre |-> FALSE, seen |-> NoRecord,
            with |-> {}]

\* the threads whose request waits for _store_lock
InFlight == {th \in Threads : req[th].pc = "cs"}

\* auth_send_otp up to line 183 of _otp_generate: the phone passed the
\* pattern, the time is read, the thread now waits for _store_lock
SendOtpStart(th, phone) ==
  /\ req[th].pc = "idle"
  /\ req' = [req EXCEPT ![th] =
               [pc |-> "cs", op |-> "send", phone |-> phone, t |-> now, code |-> <<>>,
                result |-> "", remaining |-> 0, pre |-> phone \in DOMAIN otp_store,
                seen |-> IF phone \in DOMAIN otp_store THEN otp_store[phone]
                         ELSE NoRecord,
                with |-> InFlight]]
  /\ UNCHANGED <<jobvars, now, ticks, otp_store, otp_out, otp_hist, authvars>>

\* lines 184-195 under _store_lock, then auth_send_otp answers 200 or 429
SendOtpLocked(th, n) ==
  LET r == GenerateCS(otp_store, req[th].phone, req[th].t, n) IN
  /\ req[th].pc = "cs" /\ req[th].op = "send"
  /\ otp_store' = r.store
  /\ req' = [req EXCEPT ![th].pc = "done", ![th].result = r.out.result,
                        ![th].remaining = r.out.remaining]
  /\ UNCHANGED <<jobvars, now, ticks, otp_out, otp_hist, authvars>>

\* auth_login_sms / auth_register up to line 204 of _otp_verify
LoginSmsStart(th, phone, code) ==
  /\ req[th].pc = "idle"
  /\ req' = [req EXCEPT ![th] =
               [pc |-> "cs", op |-> "verify", phone |-> phone, t |-> now, code |-> code,
                result |-> "", remaining |-> 0, pre |-> phone \in DOMAIN otp_store,
                seen |-> IF phone \in DOMAIN otp_store THEN otp_store[phone]
                         ELSE NoRecord,
                with |-> InFlight]]
  /\ UNCHANGED <<jobvars, now, ticks, otp_store, otp_out, otp_hist, authvars>>

\* lines 205-219 under _store_lock, then the handler answers 401 otp_error or
\* goes on to issue the tokens
LoginSmsLocked(th) ==
  LET r == VerifyCS(otp_store, req[th].phone, req[th].code, req[th].t) IN
  /\ req[th].pc = "cs" /\ req[th].op = "verify"
  /\ otp_store' = r.store
  /\ req' = [req EXCEPT ![th].pc = "done", ![th].result = r.out.result,
                        ![th].remaining = r.out.remaining]
  /\ UNCHANGED <<jobvars, now, ticks, otp_out, otp_hist, authvars>>

\* ------------------------------------------------------------------------
\* auth_refresh served by concurrent threads (app.py lines 782-812)
\* ------------------------------------------------------------------------

\* a thread before its refresh request; tok: the refresh_token of the body;
\* status, error, access and refresh: the answer
IdleRefresh == [pc |-> "idle", op |-> "refresh", tok |-> NoToken, status |-> 0,
                error |-> "", access |-> NoToken, refresh |-> NoToken]

RefreshAnswered(th, status, error) ==
  [req EXCEPT ![th].pc = "done", ![th].status = status, ![th].error = error]

\* lines 788-791: the body is read; an empty refresh_token is answered 400
RefreshBegin(th, tok) ==
  /\ req[th].pc = "idle"
  /\ req' = IF tok.key = "absent"
            THEN [RefreshAnswered(th, 400, "missing_token") EXCEPT ![th].tok = tok]
            ELSE [req EXCEPT ![th].pc = "verify", ![th].tok = tok]
  /\ UNCHANGED <<jobvars, now, ticks, otp_store, otp_out, otp_hist, authvars>>

\* lines 792-797: verify_token(rt, "refresh"), which takes and releases
\* _store_lock for the blacklist lookup
RefreshVerify(th) ==
  LET v == VerifyToken(req[th].tok, "refresh", now, token_bl) IN
  /\ req[th].pc = "verify"
  /\ req' = IF v = "ExpiredSignatureError"
            THEN RefreshAnswered(th, 401, "refresh_expired")
            ELSE IF v \in InvalidTokenErrors
            THEN RefreshAnswered(th, 401, "invalid_token")
            ELSE [req EXCEPT ![th].pc = "lookup"]
  /\ UNCHANGED <<jobvars, now, ticks, otp_store, otp_out, otp_hist, authvars>>

\* lines 799-803: the row of payload["sub"] is read
RefreshLookup(th) ==
  /\ req[th].pc = "lookup"
  /\ req' = IF req[th].tok.sub \notin users
            THEN RefreshAnswered(th, 404, "user_not_found")
            ELSE [req EXCEPT ![th].pc = "revoke"]
  /\ UNCHANGED <<jobvars, now, ticks, otp_store, otp_out, otp_hist, authvars>>

\* line 806: revoke_token(rt), which takes _store_lock again
RefreshRevoke(th) ==
  /\ req[th].pc = "revoke"
  /\ token_bl' = RevokeToken(token_bl, req[th].tok, now)
  /\ auth_hist' = NoteRevoke(auth_hist, req[th].tok, now)
  /\ req' = [req EXCEPT ![th].pc = "issue"]
  /\ UNCHANGED <<jobvars, now, ticks, otp_store, otp_out, otp_hist, users, gone, issued, auth_out>>

\* lines 808-812: the new pair is issued and answered with status 200
RefreshIssue(th) ==
  LET a == IssueToken(req[th].tok.sub, "access", now, FreshJti(issued))
      r == IssueToken(req[th].tok.sub, "refresh", now, FreshJti(issued \cup {a}))
  IN
  /\ req[th].pc = "issue"
  /\ issued' = issued \cup {a, r}
  /\ auth_hist' = [auth_hist EXCEPT !.rotated = @ \cup {req[th].tok}]
  /\ req' = [RefreshAnswered(th, 200, "") EXCEPT ![th].access = a, ![th].refresh = r]
  /\ UNCHANGED <<jobvars, now, ticks, otp_store, otp_out, otp_hist, token_bl, users, gone, auth_out>>

\* ------------------------------------------------------------------------
\* Analysis jobs (app.py lines 276, 348-597)
\* ------------------------------------------------------------------------

\* task ids: the n-th job gets the id n (line 567 draws a uuid4)
JobIds == 1..MaxJobs

\* the text field of an /analyze body: blank, or a contract
Texts == {"  ", "contract"}
Strip(text) == IF text = "  " THEN "" ELSE text

NoJobOut == [op |-> "none", id |-> 0, code |-> 0, body |-> <<>>]

InitJob ==
  /\ tasks = <<>>
  /\ runner = <<>>
  /\ job_out = NoJobOut

RunnerWrites_regress ==
  << [key |-> "progress", val |-> "review"], [key |-> "stage", val |-> 1],
     [key |-> "progress", val |-> "email"], [key |-> "stage", val |-> 2],
     [key |-> "progress", val |-> "talk"], [key |-> "stage", val |-> 1],
     [key |-> "progress", val |-> "revise"], [key |-> "stage", val |-> 3],
     [key |-> "progress", val |-> "merge"], [key |-> "stage", val |-> 4] >>

\* the assignments run_deep_analysis makes to its record before it is done,
\* in order: lines 367, 368, 417, 418, 444, 445, 475, 476, 516, 517
RunnerWrites ==
  << [key |-> "progress", val |-> "review"], [key |-> "stage", val |-> 1],
     [key |-> "progress", val |-> "email"], [key |-> "stage", val |-> 2],
     [key |-> "progress", val |-> "talk"], [key |-> "stage", val |-> 2],
     [key |-> "progress", val |-> "revise"], [key |-> "stage", val |-> 3],
     [key |-> "progress", val |-> "merge"], [key |-> "stage", val |-> 4] >>

\* Code that can raise runs before each progress assignment and before the
\* final record is written: make_llm (line 365), the model calls and the
\* parsing of their answers (369-415, 419-442, 446-473, 477-514), the
\* subscripts of lines 518-527. A stage assignment follows its progress
\* assignment directly.
CanRaise(at) == at % 2 = 1

\* What json.loads makes of the answer of the n-th model call (lines 414,
\* 441, 472, 513) when it parses: an object with the keys the runner reads
\* later, or one that lacks some of them
Parsed(n) ==
  IF n = 1 THEN {[issues |-> <<"issue">>, summary |-> "summary"], [summary |-> "summary"]}
  ELSE IF n = 2 THEN {[strategy |-> "strategy", email |-> "email"], [email |-> "email"]}
  ELSE IF n = 3 THEN {[talkTrack |-> "talkTrack", styles |-> "styles"],
                      [talkTrack |-> "talkTrack"]}
  ELSE {[revisedContract |-> "contract", revisionNotes |-> <<"note">>,
         revisionSummary |-> "summary"],
        [revisedContract |-> "contract"]}

\* dict.get(key, default)
DictGet(d, k, default) == IF k \in DOMAIN d THEN d[k] ELSE default

\* the subscripts of lines 520-523 find their keys
MergeKeys(data) ==
  /\ {"strategy", "email"} \subseteq DOMAIN data[2]
  /\ {"talkTrack", "styles"} \subseteq DOMAIN data[3]

\* mutant of MergeResult: the negotiation part is left out
MergeResult_no_negotiation(data) ==
  LET r2 == DictPut(data[1], "revisedContract", DictGet(data[4], "revisedContract", ""))
      r3 == DictPut(r2, "revisionNotes", DictGet(data[4], "revisionNotes", <<>>))
  IN DictPut(r3, "revisionSummary", DictGet(data[4], "revisionSummary", ""))

\* final_result of lines 518-527
MergeResult(data) ==
  LET negotiation == [strategy |-> data[2].strategy, email |-> data[2].email,
                      talkTrack |-> data[3].talkTrack, styles |-> data[3].styles]
      r1 == DictPut(data[1], "negotiation", negotiation)
      r2 == DictPut(r1, "revisedContract", DictGet(data[4], "revisedContract", ""))
      r3 == DictPut(r2, "revisionNotes", DictGet(data[4], "revisionNotes", <<>>))
  IN DictPut(r3, "revisionSummary", DictGet(data[4], "revisionSummary", ""))

\* mutant of Raisable: nothing ever raises
Raisable_never(r) == {}

\* The exceptions the code at the position of runner record r can raise:
\* make_llm before the first assignment (line 364); while a model call is
\* due, the KeyError of data_1['issues'] (line 420) or else the failure of
\* the call or of json.loads; the KeyError of lines 520-523 before the final
\* record
Raisable(r) ==
  IF r.at = 1 THEN {"make_llm"}
  ELSE IF r.need
  THEN IF Len(r.data) = 1 /\ "issues" \notin DOMAIN r.data[1]
       THEN {"KeyError"}
       ELSE {"APIError", "JSONDecodeError"}
  ELSE IF r.at = Len(RunnerWrites) + 1 /\ ~MergeKeys(r.data) THEN {"KeyError"}
  ELSE {}

\* POST /analyze (lines 548-582)
analyze(text) ==
  LET task_id == Cardinality(DOMAIN tasks) + 1 IN
  IF Strip(text) = ""
  THEN /\ job_out' = [NoJobOut EXCEPT !.op = "analyze", !.code = 400]
       /\ UNCHANGED <<tasks, runner, now, ticks, otpvars, authvars>>
  ELSE /\ task_id \in JobIds
       /\ tasks' = DictPut(tasks, task_id,
                           [status |-> "processing", stage |-> 0, progress |-> "init"])
       /\ runner' = DictPut(runner, task_id,
                            [mode |-> "try", at |-> 1, need |-> FALSE, data |-> <<>>,
                             err |-> ""])
       /\ job_out' = [NoJobOut EXCEPT !.op = "analyze", !.code = 200, !.id = task_id]
       /\ UNCHANGED <<now, ticks, otpvars, authvars>>

\* run_deep_analysis makes its next assignment, a model call being due after
\* each of the stage assignments 1, 2, 2 and 3; after the last assignment it
\* replaces the record by the completed one (lines 518-533) and, its print
\* returning, leaves the try block
RunnerStep(id) ==
  LET at == runner[id].at IN
  /\ runner[id].mode = "try"
  /\ ~runner[id].need
  /\ IF at <= Len(RunnerWrites)
     THEN /\ tasks' = [tasks EXCEPT ![id] =
                         DictPut(@, RunnerWrites[at].key, RunnerWrites[at].val)]
          /\ runner' = [runner EXCEPT ![id].at = at + 1,
                                      ![id].need = (at % 2 = 0 /\ at < Len(RunnerWrites))]
     ELSE /\ MergeKeys(runner[id].data)
          /\ tasks' = [tasks EXCEPT ![id] =
                         [status |-> "completed", result |-> MergeResult(runner[id].data),
                          progress |-> "done"]]
          /\ runner' = [runner EXCEPT ![id].mode = "exit"]
  /\ UNCHANGED <<job_out, now, ticks, otpvars, authvars>>

\* the model call that is due returns and its answer parses to d (lines
\* 413-414, 440-441, 471-472, 512-513)
RunnerCall(id, d) ==
  /\ runner[id].mode = "try"
  /\ runner[id].need
  /\ "KeyError" \notin Raisable(runner[id])
  /\ d \in Parsed(Len(runner[id].data) + 1)
  /\ runner' = [runner EXCEPT ![id].data = Append(@, d), ![id].need = FALSE]
  /\ UNCHANGED <<tasks, job_out, now, ticks, otpvars, authvars>>

\* an exception leaves the try block (line 536)
RunnerRaise(id) ==
  /\ runner[id].mode = "try"
  /\ CanRaise(runner[id].at)
  /\ \E e \in Raisable(runner[id]) :
       runner' = [runner EXCEPT ![id].mode = "except", ![id].err = e]
  /\ UNCHANGED <<tasks, job_out, now, ticks, otpvars, authvars>>

\* mutant of RunnerFail: the failed record keeps what the stages produced
RunnerFail_partial(id) ==
  /\ runner[id].mode = "except"
  /\ tasks' = [tasks EXCEPT ![id] =
                 [status |-> "failed", error |-> runner[id].err,
                  error_detail |-> "traceback", progress |-> "failed",
                  result |-> runner[id].data]]
  /\ runner' = [runner EXCEPT ![id].mode = "exit"]
  /\ UNCHANGED <<job_out, now, ticks, otpvars, authvars>>

\* the handler replaces the record by the failed one (lines 540-545)
RunnerFail(id) ==
  /\ runner[id].mode = "except"
  /\ tasks' = [tasks EXCEPT ![id] =
                 [status |-> "failed", error |-> runner[id].err,
                  error_detail |-> "traceback", progress |-> "failed"]]
  /\ runner' = [runner EXCEPT ![id].mode = "exit"]
  /\ UNCHANGED <<job_out, now, ticks, otpvars, authvars>>

\* GET /status/<task_id> (lines 585-597)
get_status(task_id) ==
  IF task_id \notin DOMAIN tasks
  THEN /\ job_out' = [NoJobOut EXCEPT !.op = "status", !.id = task_id, !.code = 404]
       /\ UNCHANGED <<tasks, runner, now, ticks, otpvars, authvars>>
  ELSE LET task == IF "progress" \notin DOMAIN tasks[task_id]
                   THEN DictPut(tasks[task_id], "progress", "processing")
                   ELSE tasks[task_id]
       IN
       /\ tasks' = [tasks EXCEPT ![task_id] = task]
       /\ job_out' = [op |-> "status", id |-> task_id, code |-> 200, body |-> task]
       /\ UNCHANGED <<runner, now, ticks, otpvars, authvars>>

Init ==
  /\ now = 0
  /\ ticks = 0
  /\ otp_store = <<>>
  /\ otp_out = NoOut
  /\ otp_hist = [p \in Phones |-> NoHist]
  /\ req = [th \in Threads |-> IdleReq]
  /\ InitAuth
  /\ InitJob

OtpGenerate == \E p \in Phones, n \in RandInts : otp_generate(p, n)
OtpVerify == \E p \in Phones, c \in SubmittedCodes : otp_verify(p, c)

NextOtp == OtpGenerate \/ OtpVerify \/ Tick

SpecOtp == Init /\ [][NextOtp]_vars

\* the auth requests, handled one at a time
DoLogin == \E u \in Users : Login(u)
DoAuthMe == \E tok \in Presentable : AuthMe(tok)
DoRefresh == \E tok \in Presentable : Refresh(tok)
DoLogout ==
  \E tok \in Presentable :
    \E rt \in IF RequireAuth(tok, now, token_bl).status = 200 THEN Presentable
               ELSE {NoToken} :  \* the body is not read behind a 401
      Logout(tok, rt)
DoDeleteAccount == \E tok \in Presentable : DeleteAccount(tok)

NextAuth == DoLogin \/ DoAuthMe \/ DoRefresh \/ DoLogout \/ DoDeleteAccount \/ Tick

SpecAuth == Init /\ [][NextAuth]_vars

\* requests served by concurrent threads
SendStart == \E th \in Threads, p \in Phones : SendOtpStart(th, p)
SendLocked == \E th \in Threads, n \in RandInts : SendOtpLocked(th, n)
LoginStart == \E th \in Threads, p \in Phones, c \in SubmittedCodes : LoginSmsStart(th, p, c)
LoginLocked == \E th \in Threads : LoginSmsLocked(th)

NextOtpRace == SendStart \/ SendLocked \/ LoginStart \/ LoginLocked \/ Tick

\* The concurrent runs start with no challenge stored, or with the challenge
\* an earlier send-otp request stored at time 0, untried or already tried
\* OTP_MAX_ATTEMPTS times with a wrong code.
InitOtpRace ==
  /\ now = 0
  /\ ticks = 0
  /\ \E S \in SUBSET Phones : \E n \in RandInts : \E k \in {0, OTP_MAX_ATTEMPTS} :
       otp_store = [p \in S |->
                      [GenerateCS(<<>>, p, 0, n).store[p] EXCEPT !.attempts = k]]
  /\ otp_out = NoOut
  /\ otp_hist = [p \in Phones |-> NoHist]
  /\ req = [th \in Threads |-> IdleReq]
  /\ InitAuth
  /\ InitJob

SpecOtpRace == InitOtpRace /\ [][NextOtpRace]_vars

\* refresh requests served by concurrent threads, next to account deletions
BeginRefresh == \E th \in Threads, tok \in Presentable : RefreshBegin(th, tok)
VerifyRefresh == \E th \in Threads : RefreshVerify(th)
LookupRefresh == \E th \in Threads : RefreshLookup(th)
RevokeRefresh == \E th \in Threads : RefreshRevoke(th)
IssueRefresh == \E th \in Threads : RefreshIssue(th)

NextRefreshRace ==
  \/ BeginRefresh \/ VerifyRefresh \/ LookupRefresh \/ RevokeRefresh \/ IssueRefresh
  \/ DoDeleteAccount

\* The concurrent refreshes start after one login at time 0.
InitRefreshRace ==
  /\ now = 0
  /\ ticks = 0
  /\ otp_store = <<>>
  /\ otp_out = NoOut
  /\ otp_hist = [p \in Phones |-> NoHist]
  /\ req = [th \in Threads |-> IdleRefresh]
  /\ token_bl = {}
  /\ users = {1}
  /\ gone = {}
  /\ issued = {IssueToken(1, "access", 0, 0), IssueToken(1, "refresh", 0, 1)}
  /\ auth_out = NoAuthOut
  /\ auth_hist = NoAuthHist
  /\ InitJob

SpecRefreshRace == InitRefreshRace /\ [][NextRefreshRace]_vars

\* the analysis jobs: requests and runner threads in any interleaving
Analyze == \E text \in Texts : analyze(text)
StepRunner == \E id \in DOMAIN runner : RunnerStep(id)
CallRunner == \E id \in DOMAIN runner, n \in 1..4 : \E d \in Parsed(n) : RunnerCall(id, d)
RaiseRunner == \E id \in DOMAIN runner : RunnerRaise(id)
FailRunner == \E id \in DOMAIN runner : RunnerFail(id)
GetStatus == \E id \in JobIds : get_status(id)

NextJob == Analyze \/ StepRunner \/ CallRunner \/ RaiseRunner \/ FailRunner \/ GetStatus

SpecJob == Init /\ [][NextJob]_vars

\* the thread of job id takes its next step: an assignment, the return of
\* the model call it waits for, an exception, or the except handler
RunnerMove(id) ==
  /\ id \in DOMAIN runner
  /\ \/ RunnerStep(id)
     \/ \E n \in 1..4 : \E d \in Parsed(n) : RunnerCall(id, d)
     \/ RunnerRaise(id)
     \/ RunnerFail(id)

\* every model call returns or raises and every runner thread is scheduled
SpecJobFair == SpecJob /\ \A id \in JobIds : WF_vars(RunnerMove(id))

\* ========================================================================
\* Properties
\* ========================================================================

Trail(p) == otp_hist[p].trail

\* the first k _otp_verify calls since the last issue for p submitted a wrong
\* code to a stored challenge that had not expired
FirstWrong(p, k) ==
  /\ otp_hist[p].last >= 0
  /\ Len(Trail(p)) >= k
  /\ \A i \in 1..k : ~Trail(p)[i].correct /\ ~Trail(p)[i].expired

\* C5 as stated: after OTP_MAX_ATTEMPTS wrong codes in a row on a fresh
\* challenge the record is gone, and every later verify answers NotFound.
C5_RemovedOnFifth ==
  \A p \in Phones :
    FirstWrong(p, OTP_MAX_ATTEMPTS) =>
      /\ p \notin DOMAIN otp_store
      /\ \A i \in (OTP_MAX_ATTEMPTS + 1)..Len(Trail(p)) : Trail(p)[i].result = "NotFound"

\* C5 amended: after OTP_MAX_ATTEMPTS wrong codes in a row on a fresh,
\* unexpired challenge each of them was answered CodeMismatch and the record
\* is still stored with attempts = OTP_MAX_ATTEMPTS; the next verify, also with
\* the correct code, is answered TooManyAttempts (Expired when the challenge
\* has expired by then) and removes the record; every verify after that is
\* answered NotFound.
C5_RemovedOnSixth ==
  \A p \in Phones :
    FirstWrong(p, OTP_MAX_ATTEMPTS) =>
      /\ \A i \in 1..OTP_MAX_ATTEMPTS : Trail(p)[i].result = "CodeMismatch"
      /\ Len(Trail(p)) = OTP_MAX_ATTEMPTS =>
           /\ p \in DOMAIN otp_store
           /\ otp_store[p].attempts = OTP_MAX_ATTEMPTS
           /\ otp_out.op = "verify" => otp_out.remaining = 0
      /\ Len(Trail(p)) > OTP_MAX_ATTEMPTS =>
           /\ p \notin DOMAIN otp_store
           /\ Trail(p)[OTP_MAX_ATTEMPTS + 1].result =
                IF Trail(p)[OTP_MAX_ATTEMPTS + 1].expired THEN "Expired" ELSE "TooManyAttempts"
           /\ \A i \in (OTP_MAX_ATTEMPTS + 2)..Len(Trail(p)) :
                Trail(p)[i].result = "NotFound"

\* C5 witness: five wrong codes, then the correct code refused with
\* TooManyAttempts, then NotFound
C5_Witness ==
  \E p \in Phones :
    /\ FirstWrong(p, OTP_MAX_ATTEMPTS)
    /\ Len(Trail(p)) = OTP_MAX_ATTEMPTS + 2
    /\ Trail(p)[OTP_MAX_ATTEMPTS + 1].correct
    /\ Trail(p)[OTP_MAX_ATTEMPTS + 1].result = "TooManyAttempts"
    /\ Trail(p)[OTP_MAX_ATTEMPTS + 2].result = "NotFound"

\* C6 as stated: two successful _otp_generate calls for one contact are never
\* less than OTP_RATE_LIMIT_SEC apart, whatever happened to the earlier
\* challenge in between.
C6_IssuesApart ==
  \A p \in Phones :
    otp_hist[p].prev >= 0 => otp_hist[p].last - otp_hist[p].prev >= OTP_RATE_LIMIT_SEC

\* C7: with no _otp_verify call since the last successful _otp_generate for
\* the contact at time T, an _otp_generate at time t is refused with
\* RateLimited exactly when t - T < OTP_RATE_LIMIT_SEC (and then reports
\* OTP_RATE_LIMIT_SEC - (t - T) seconds and leaves the record alone), and
\* otherwise stores a new challenge issued at t.
C7_ResendWindow ==
  \A p \in Phones :
    (otp_out.op = "generate" /\ otp_out.phone = p) =>
      /\ otp_out.result = "RateLimited" =>
           /\ otp_hist[p].last >= 0
           /\ now - otp_hist[p].last < OTP_RATE_LIMIT_SEC
           /\ otp_out.remaining = OTP_RATE_LIMIT_SEC - (now - otp_hist[p].last)
           /\ p \in DOMAIN otp_store /\ otp_store[p].issued_at = otp_hist[p].last
      /\ otp_out.result = "ok" =>
           /\ (otp_hist[p].prev >= 0 /\ otp_hist[p].between = 0) =>
                now - otp_hist[p].prev >= OTP_RATE_LIMIT_SEC
           /\ p \in DOMAIN otp_store
           /\ otp_store[p] = [code |-> otp_out.code, expiry |-> now + OTP_EXPIRE_SECONDS,
                              attempts |-> 0, issued_at |-> now]
      /\ otp_out.result \in {"RateLimited", "ok"}

\* C7 witness: a second challenge issued exactly OTP_RATE_LIMIT_SEC after the
\* first, no verification in between
C7_Witness ==
  \E p \in Phones :
    /\ otp_out.op = "generate" /\ otp_out.phone = p /\ otp_out.result = "ok"
    /\ otp_hist[p].prev >= 0 /\ otp_hist[p].between = 0
    /\ now - otp_hist[p].prev = OTP_RATE_LIMIT_SEC

\* C9 as stated: the correct code on a stored, unexpired challenge is accepted
\* and removes the record; a repeated verify is answered NotFound; one issued
\* code is accepted at most once.
C9_CorrectCodeAccepted ==
  \A p \in Phones : \A i \in 1..Len(Trail(p)) :
    /\ (Trail(p)[i].correct /\ ~Trail(p)[i].expired) => Trail(p)[i].result = "ok"
    /\ Trail(p)[i].result = "ok" =>
         /\ p \notin DOMAIN otp_store
         /\ \A j \in (i + 1)..Len(Trail(p)) : Trail(p)[j].result = "NotFound"

\* C9 amended: the correct code on a stored, unexpired challenge that has seen
\* fewer than OTP_MAX_ATTEMPTS verifications is accepted and removes the
\* record; a repeated verify with no generate in between is answered
\* NotFound; one issued code is accepted at most once.
C9_CorrectCodeConsumes ==
  \A p \in Phones : \A i \in 1..Len(Trail(p)) :
    /\ (Trail(p)[i].correct /\ ~Trail(p)[i].expired /\ i <= OTP_MAX_ATTEMPTS) =>
         Trail(p)[i].result = "ok"
    /\ Trail(p)[i].result = "ok" =>
         /\ Trail(p)[i].correct
         /\ p \notin DOMAIN otp_store
         /\ \A j \in (i + 1)..Len(Trail(p)) : Trail(p)[j].result = "NotFound"
    /\ Cardinality({j \in 1..Len(Trail(p)) : Trail(p)[j].result = "ok"}) <= 1

\* C9 witness: a wrong code, then the correct code accepted, then the same
\* code answered NotFound
C9_Witness ==
  \E p \in Phones :
    /\ Len(Trail(p)) = 3
    /\ Trail(p)[1].result = "CodeMismatch"
    /\ Trail(p)[2].result = "ok"
    /\ Trail(p)[3].result = "NotFound"
    /\ p \notin DOMAIN otp_store

\* two send-otp requests for one phone, both read the clock while no challenge
\* for it was stored, one started while the other was in flight, their clock
\* readings less than OTP_RATE_LIMIT_SEC apart, both answered
SendRace(a, b) ==
  /\ a # b
  /\ req[a].op = "send" /\ req[b].op = "send"
  /\ req[a].phone = req[b].phone
  /\ req[a].pc = "done" /\ req[b].pc = "done"
  /\ ~req[a].pre /\ ~req[b].pre
  /\ a \in req[b].with
  /\ req[a].t - req[b].t < OTP_RATE_LIMIT_SEC
  /\ req[b].t - req[a].t < OTP_RATE_LIMIT_SEC

\* C8: of two racing send-otp requests for one contact within the resend
\* interval, no challenge stored beforehand, exactly one stores a challenge
\* and succeeds; the other is refused with RateLimited and a strictly
\* positive number of seconds remaining.
C8_OneSendWins ==
  \A a, b \in Threads :
    SendRace(a, b) =>
      \E w, l \in {a, b} :
        /\ w # l
        /\ req[w].result = "ok"
        /\ req[l].result = "RateLimited"
        /\ req[l].remaining > 0
        /\ req[l].remaining = OTP_RATE_LIMIT_SEC - (req[l].t - req[w].t)
        /\ req[w].phone \in DOMAIN otp_store
        /\ otp_store[req[w].phone].issued_at = req[w].t

\* C8 witness: the request that read the clock later took the lock first, so
\* the loser is told to wait more than the whole interval
C8_Witness ==
  \E a, b \in Threads :
    /\ SendRace(a, b)
    /\ req[b].result = "ok"
    /\ req[a].result = "RateLimited"
    /\ req[a].t < req[b].t
    /\ req[a].remaining > OTP_RATE_LIMIT_SEC

\* C1: a token on which revoke_token was called while it was validly signed
\* and unexpired is, for as long as it has not expired, refused by
\* verify_token as revoked when its own kind is expected, and refused as an
\* invalid token whatever kind is expected, after any further logins,
\* refreshes, logouts and deletions.
C1_RevokedStaysRevoked ==
  \A tok \in auth_hist.revoked :
    JwtDecode(tok, now) = "ok" =>
      /\ VerifyToken(tok, tok.type, now, token_bl) = "Revoked"
      /\ \A k \in Kinds : VerifyToken(tok, k, now, token_bl) \in InvalidTokenErrors

C1_Witness ==
  /\ auth_out.op = "login"
  /\ \E tok \in auth_hist.revoked :
       /\ now > tok.iat
       /\ JwtDecode(tok, now) = "ok"
       /\ VerifyToken(tok, tok.type, now, token_bl) = "Revoked"

\* C2: the access token and the refresh token a login or a refresh has just
\* answered with are accepted by verify_token for their own kind, and carry
\* the subject they were issued for and that kind.
C2_IssuedVerifies ==
  (auth_out.op \in {"login", "refresh"} /\ auth_out.status = 200) =>
    /\ VerifyToken(auth_out.access, "access", now, token_bl) = "ok"
    /\ VerifyToken(auth_out.refresh, "refresh", now, token_bl) = "ok"
    /\ auth_out.access.sub = auth_out.sub /\ auth_out.access.type = "access"
    /\ auth_out.refresh.sub = auth_out.sub /\ auth_out.refresh.type = "refresh"

C2_Witness ==
  /\ auth_out.op = "refresh" /\ auth_out.status = 200
  /\ now > 0
  /\ token_bl # {}
  /\ VerifyToken(auth_out.refresh, "refresh", now, token_bl) = "ok"

\* C3 as stated: a refresh request presenting a refresh token that an
\* earlier refresh rotated is always answered invalid_token.
C3_ReplayInvalidToken ==
  /\ \A r \in auth_hist.rotated :
       RefreshAnswer(r, now, token_bl, users).error = "invalid_token"
  /\ auth_out.replay # NoToken => auth_out.error = "invalid_token"

\* C3: a successful refresh answers with a new access + refresh pair and
\* leaves the jti of the presented token in the blacklist; every later
\* refresh request presenting that token is answered 401 without tokens:
\* invalid_token while the token has not expired, refresh_expired afterwards.
C3_ReplayRefused ==
  /\ \A r \in auth_hist.rotated :
       /\ r.jti \in token_bl
       /\ RefreshAnswer(r, now, token_bl, users) =
            [status |-> 401,
             error |-> IF now > r.exp THEN "refresh_expired" ELSE "invalid_token"]
  /\ (auth_out.op = "refresh" /\ auth_out.status = 200) =>
       /\ {auth_out.access, auth_out.refresh} \subseteq issued
       /\ auth_out.access # auth_out.refresh
       /\ auth_out.replay = NoToken
       /\ \E r \in auth_hist.rotated : r.sub = auth_out.sub /\ r.jti \in token_bl
  /\ auth_out.replay # NoToken =>
       /\ auth_out.status = 401
       /\ auth_out.error = IF now > auth_out.replay.exp THEN "refresh_expired"
                           ELSE "invalid_token"
       /\ auth_out.access = NoToken /\ auth_out.refresh = NoToken

C3_Witness ==
  /\ auth_out.op = "refresh"
  /\ auth_out.replay \in auth_hist.rotated
  /\ auth_out.error = "invalid_token"

\* C4: of the refresh requests that present the same refresh token, on
\* whatever threads they run, at most one is answered 200 with a new pair.
C4_SingleUse ==
  \A a, b \in Threads :
    (/\ a # b
     /\ req[a].pc = "done" /\ req[b].pc = "done"
     /\ req[a].tok = req[b].tok
     /\ req[a].status = 200) => req[b].status # 200

Terminal(task) == task.status \in {"completed", "failed"}

StagePairs ==
  {<<"init", 0>>} \cup
  {<<RunnerWrites[2 * k - 1].val, RunnerWrites[2 * k].val>> : k \in 1..(Len(RunnerWrites) \div 2)}

\* C11: the body of a status answer for a processing job pairs the progress
\* message of a stage with the stage number of that same stage.
C11_PollSeesWholeUpdate ==
  (job_out.op = "status" /\ job_out.code = 200 /\ job_out.body.status = "processing") =>
    <<job_out.body.progress, job_out.body.stage>> \in StagePairs

\* a status answer given before the runner of the job made any assignment
PolledBeforeStart ==
  /\ job_out.op = "status" /\ job_out.code = 200
  /\ runner[job_out.id].mode = "try" /\ runner[job_out.id].at = 1

\* the four model calls of job id returned and parsed, and its thread is done
AllCallsParsed(id) == Len(runner[id].data) = 4 /\ runner[id].mode = "exit"

\* the final record of job id is completed with the merged result
CompletedMerged(id) ==
  LET data == runner[id].data IN
  /\ tasks[id].status = "completed"
  /\ DOMAIN tasks[id] = {"status", "result", "progress"}
  /\ DOMAIN tasks[id].result =
       DOMAIN data[1] \cup {"negotiation", "revisedContract", "revisionNotes",
                            "revisionSummary"}
  /\ \A k \in DOMAIN data[1] : tasks[id].result[k] = data[1][k]
  /\ tasks[id].result.negotiation =
       [strategy |-> data[2].strategy, email |-> data[2].email,
        talkTrack |-> data[3].talkTrack, styles |-> data[3].styles]
  /\ tasks[id].result.revisedContract = data[4].revisedContract
  /\ tasks[id].result.revisionNotes = DictGet(data[4], "revisionNotes", <<>>)
  /\ tasks[id].result.revisionSummary = DictGet(data[4], "revisionSummary", "")

SubmittedIsProcessing ==
  /\ (job_out.op = "analyze" /\ job_out.code = 200) => job_out.id \in DOMAIN tasks
  /\ PolledBeforeStart =>
       /\ job_out.body.status = "processing" /\ job_out.body.stage = 0
       /\ tasks[job_out.id].status = "processing" /\ tasks[job_out.id].stage = 0

C20_StatusFields ==
  (job_out.op = "status" /\ job_out.code = 200) =>
    /\ {"status", "stage", "progress"} \subseteq DOMAIN job_out.body
    /\ job_out.body.status = "completed" => "result" \in DOMAIN job_out.body
    /\ job_out.body.status = "failed" => "error" \in DOMAIN job_out.body

\* the outcome the gateway is to give for the header carrying tok
ExpectedGate(tok, t, bl) ==
  IF tok.key = "absent" THEN [status |-> 401, error |-> "missing_token"]
  ELSE IF tok.key = "JWT_SECRET" /\ t > tok.exp
  THEN [status |-> 401, error |-> "token_expired"]
  ELSE IF tok.key # "JWT_SECRET" \/ tok.type # "access" \/ tok.jti \in bl
  THEN [status |-> 401, error |-> "invalid_token"]
  ELSE [status |-> 200, error |-> ""]

\* this step is a request to a protected endpoint with the header carrying tok
HandledWith(tok) ==
  \/ auth_out'.op = "me" /\ AuthMe(tok)
  \/ auth_out'.op = "delete" /\ DeleteAccount(tok)
  \/ /\ auth_out'.op = "logout"
     /\ \E rt \in IF auth_out'.status = 200 THEN Presentable ELSE {NoToken} :
          Logout(tok, rt)

AuthStateUnchanged == UNCHANGED <<token_bl, users, gone, issued, auth_hist>>

\* C15: require_auth answers missing_token without a bearer token,
\* token_expired for a well-signed expired token whatever its kind or
\* blacklisting, invalid_token for a bad signature, another kind or a
\* blacklisted jti; the handler behind it runs only for an accepted token,
\* for the subject of that token, and a refused request changes nothing.
C15_GateMapping ==
  /\ [](\A tok \in Presentable :
         RequireAuth(tok, now, token_bl) = ExpectedGate(tok, now, token_bl))
  /\ [][\A tok \in Presentable :
          HandledWith(tok) =>
            IF ExpectedGate(tok, now, token_bl).status = 200
            THEN auth_out'.status \in {200, 404} /\ auth_out'.sub = tok.sub
            ELSE /\ auth_out'.status = 401
                 /\ auth_out'.error = ExpectedGate(tok, now, token_bl).error
                 /\ AuthStateUnchanged]_vars

C15_Witness ==
  /\ auth_out.op = "me" /\ auth_out.error = "token_expired"
  /\ \E tok \in issued : now > tok.exp /\ tok.jti \in token_bl
  /\ \E tok \in issued : tok.type = "access" /\ ExpectedGate(tok, now, token_bl).status = 200

\* C16 as stated: a refresh token at a protected endpoint and an access
\* token at the refresh endpoint are always answered invalid_token.
C16_KindMismatchAlways ==
  \A tok \in issued :
    /\ tok.type = "refresh" =>
         RequireAuth(tok, now, token_bl) = [status |-> 401, error |-> "invalid_token"]
    /\ tok.type = "access" =>
         RefreshAnswer(tok, now, token_bl, users) =
           [status |-> 401, error |-> "invalid_token"]

\* C16: a refresh token is never accepted at a protected endpoint nor an
\* access token at the refresh endpoint: while the token has not expired the
\* answer is invalid_token for the type mismatch, afterwards token_expired
\* or refresh_expired, and such a request changes nothing.
C16_KindsNotInterchangeable ==
  /\ [](\A tok \in issued :
         /\ tok.type = "refresh" =>
              /\ RequireAuth(tok, now, token_bl) =
                   [status |-> 401,
                    error |-> IF now > tok.exp THEN "token_expired" ELSE "invalid_token"]
              /\ now <= tok.exp => TokenMessage(tok, "access", now, token_bl) = "TypeMismatch"
         /\ tok.type = "access" =>
              /\ RefreshAnswer(tok, now, token_bl, users) =
                   [status |-> 401,
                    error |-> IF now > tok.exp THEN "refresh_expired" ELSE "invalid_token"]
              /\ now <= tok.exp => TokenMessage(tok, "refresh", now, token_bl) = "TypeMismatch")
  /\ [][\A tok \in issued :
          (\/ tok.type = "refresh" /\ HandledWith(tok)
           \/ tok.type = "access" /\ auth_out'.op = "refresh" /\ Refresh(tok)) =>
            auth_out'.status = 401 /\ AuthStateUnchanged]_vars

C16_Witness ==
  /\ auth_out.op = "refresh" /\ auth_out.message = "TypeMismatch"
  /\ \E tok \in issued : tok.type = "refresh" /\ tok.jti \notin token_bl

\* C17: a logout whose body carries a correctly signed token leaves the jti
\* of that token in the blacklist, expired or not.
C17_ExpiredStillRevoked ==
  [][(auth_out'.op = "logout" /\ auth_out'.status = 200) =>
       \A a \in Presentable, rt \in Presentable :
         (Logout(a, rt) /\ rt.key = "JWT_SECRET") => rt.jti \in token_bl']_vars

\* C18: revoke_token ends without an exception for every token; for a token
\* that is absent or wrongly signed it leaves the blacklist as it is; a
\* second revoke_token of the same token leaves the blacklist as the first
\* one left it.
C18_RevokeLenientIdempotent ==
  \A tok \in Presentable :
    LET once == RevokeToken(token_bl, tok, now) IN
    /\ RevokeOutcome(token_bl, tok, now).exc = "none"
    /\ RevokeOutcome(once, tok, now).exc = "none"
    /\ tok.key # "JWT_SECRET" => once = token_bl
    /\ RevokeToken(once, tok, now) = once

C18_Witness ==
  /\ auth_out.op = "logout" /\ auth_out.status = 200
  /\ \E tok \in issued : JwtDecode(tok, now) = "ok" /\ tok.jti \notin token_bl
  /\ \E tok \in issued : JwtDecode(tok, now) = "ok" /\ tok.jti \in token_bl
  /\ \E tok \in issued : JwtDecode(tok, now) = "ExpiredSignatureError"

\* The tokens a successful logout revoked: an access token of an existing
\* user is revoked by a logout only (a deletion revokes the token of the
\* deleted user), a refresh token by a logout or by its rotation.
LoggedOut ==
  {tok \in auth_hist.revoked :
     \/ tok.type = "access" /\ tok.sub \in users
     \/ tok.type = "refresh" /\ tok \notin auth_hist.rotated}

\* C19 as stated: after a logout its access token is always answered
\* invalid_token at a protected endpoint and its refresh token always
\* invalid_token at the refresh endpoint.
C19_LoggedOutInvalid ==
  \A tok \in LoggedOut :
    /\ tok.type = "access" => RequireAuth(tok, now, token_bl).error = "invalid_token"
    /\ tok.type = "refresh" =>
         RefreshAnswer(tok, now, token_bl, users).error = "invalid_token"

\* C19: a successful logout blacklists its access token and the unexpired
\* token of its body, and only the access token when the body has none;
\* ever after the access token is refused at the protected endpoints and the
\* refresh token at the refresh endpoint: as revoked (invalid_token) while
\* unexpired, as expired afterwards.
C19_LoggedOutRefused ==
  /\ [](\A tok \in LoggedOut :
         /\ now <= tok.exp => tok.jti \in token_bl
         /\ tok.type = "access" =>
              /\ RequireAuth(tok, now, token_bl) =
                   [status |-> 401,
                    error |-> IF now > tok.exp THEN "token_expired" ELSE "invalid_token"]
              /\ now <= tok.exp => TokenMessage(tok, "access", now, token_bl) = "Revoked"
         /\ tok.type = "refresh" =>
              /\ RefreshAnswer(tok, now, token_bl, users) =
                   [status |-> 401,
                    error |-> IF now > tok.exp THEN "refresh_expired" ELSE "invalid_token"]
              /\ now <= tok.exp => TokenMessage(tok, "refresh", now, token_bl) = "Revoked")
  /\ [][(auth_out'.op = "logout" /\ auth_out'.status = 200) =>
          \A a \in Presentable, rt \in Presentable :
            Logout(a, rt) =>
              /\ a \in auth_hist'.revoked /\ a.jti \in token_bl'
              /\ rt.key = "absent" => token_bl' = token_bl \cup {a.jti}
              /\ JwtDecode(rt, now) = "ok" =>
                   rt \in auth_hist'.revoked /\ rt.jti \in token_bl']_vars

C19_Witness ==
  /\ auth_out.op = "refresh" /\ auth_out.message = "Revoked"
  /\ auth_hist.rotated = {}
  /\ \E tok \in LoggedOut : tok.type = "access" /\ now <= tok.exp
  /\ \E tok \in LoggedOut : tok.type = "refresh" /\ now <= tok.exp

\* C21: the body of a status answer never carries the traceback of a failed
\* job.
C21_DetailStaysServerSide ==
  (job_out.op = "status" /\ job_out.code = 200) =>
    "error_detail" \notin DOMAIN job_out.body

\* this step is a call _otp_verify(p, c) that finds a challenge for p that
\* has not expired
VerifyLive(p, c) ==
  /\ otp_out'.op = "verify"
  /\ p \in DOMAIN otp_store
  /\ now <= otp_store[p].expiry
  /\ otp_verify(p, c)

\* C22: a stored record counts the verifications since it was issued and
\* never more than OTP_MAX_ATTEMPTS of them; on an unexpired challenge the
\* k-th verification succeeds with the correct code for k up to
\* OTP_MAX_ATTEMPTS, and the next one is refused with TooManyAttempts and
\* removes the record, whatever the code.
C22_AttemptLimit ==
  /\ [](\A p \in DOMAIN otp_store :
         /\ otp_store[p].attempts \in 0..OTP_MAX_ATTEMPTS
         /\ otp_store[p].attempts = Len(Trail(p)))
  /\ [][\A p \in Phones, c \in SubmittedCodes :
          VerifyLive(p, c) =>
            LET k == otp_store[p].attempts + 1 IN
            /\ (k <= OTP_MAX_ATTEMPTS /\ c = otp_store[p].code) =>
                 otp_out'.result = "ok" /\ p \notin DOMAIN otp_store'
            /\ k = OTP_MAX_ATTEMPTS + 1 =>
                 otp_out'.result = "TooManyAttempts" /\ p \notin DOMAIN otp_store']_vars

C22_Witness ==
  \E p \in Phones :
    /\ Len(Trail(p)) = OTP_MAX_ATTEMPTS
    /\ Trail(p)[OTP_MAX_ATTEMPTS].result = "ok"
    /\ otp_out.result = "ok" /\ otp_out.op = "verify"

\* C23: a wrong code on an unexpired challenge whose count, once
\* incremented, is at most OTP_MAX_ATTEMPTS is refused with CodeMismatch,
\* reports OTP_MAX_ATTEMPTS minus the new count, and changes nothing of the
\* record but its count, which grows by one.
C23_WrongCodeCounts ==
  [][\A p \in Phones, c \in SubmittedCodes :
       (/\ VerifyLive(p, c)
        /\ c # otp_store[p].code
        /\ otp_store[p].attempts + 1 <= OTP_MAX_ATTEMPTS) =>
         /\ otp_out'.result = "CodeMismatch"
         /\ otp_out'.remaining = OTP_MAX_ATTEMPTS - (otp_store[p].attempts + 1)
         /\ otp_out'.remaining >= 0
         /\ otp_store' = [otp_store EXCEPT ![p].attempts = @ + 1]]_vars

C23_Witness ==
  /\ otp_out.op = "verify" /\ otp_out.result = "CodeMismatch"
  /\ otp_out.remaining = 0
  /\ \E p \in DOMAIN otp_store : otp_store[p].attempts = OTP_MAX_ATTEMPTS

\* C24: a verification later than the expiry of the stored challenge is
\* refused with Expired whatever the code and removes the record as it is;
\* one at the expiry second is not refused as expired; a verification for a
\* phone without a record is refused with NotFound.
C24_ExpiredRemoved ==
  [][\A p \in Phones, c \in SubmittedCodes :
       (otp_out'.op = "verify" /\ otp_verify(p, c)) =>
         IF p \notin DOMAIN otp_store
         THEN otp_out'.result = "NotFound" /\ otp_store' = otp_store
         ELSE /\ now > otp_store[p].expiry =>
                   otp_out'.result = "Expired" /\ otp_store' = DictDel(otp_store, p)
              /\ now <= otp_store[p].expiry => otp_out'.result # "Expired"]_vars

\* the correct code was refused as expired, and the next call found nothing
C24_Witness ==
  \E p \in Phones :
    \E k \in 1..(Len(Trail(p)) - 1) :
      /\ Trail(p)[k].result = "Expired" /\ Trail(p)[k].correct
      /\ Trail(p)[k + 1].result = "NotFound"

\* C25: a send refused with RateLimited finds a challenge stored and leaves
\* the store exactly as it was.
C25_RefusedSendKeepsRecord ==
  [][\A p \in Phones, n \in RandInts :
       (otp_out'.op = "generate" /\ otp_out'.result = "RateLimited"
        /\ otp_generate(p, n)) =>
         p \in DOMAIN otp_store /\ otp_store' = otp_store]_vars

C25_Witness ==
  /\ otp_out.op = "generate" /\ otp_out.result = "RateLimited"
  /\ \E p \in DOMAIN otp_store : otp_store[p].attempts > 0 /\ now > otp_store[p].issued_at

\* C26: no step removes a jti from the blacklist, and a step that only
\* issues a pair (login) or only verifies a token (me) adds none.
C26_BlacklistGrows ==
  [][/\ token_bl \subseteq token_bl'
     /\ auth_out'.op \in {"login", "me"} => token_bl' = token_bl]_vars

\* two tokens are revoked and a third has just passed verify_token
C26_Witness ==
  /\ Cardinality(token_bl) >= 2
  /\ auth_out.op = "me" /\ auth_out.status = 200

\* C27: a refresh request that is not answered with a new pair leaves the
\* blacklist and the set of issued tokens as they were and carries no token
\* in its answer.
C27_FailedRefreshChangesNothing ==
  [][\A tok \in Presentable :
       (/\ auth_out'.op = "refresh"
        /\ RefreshAnswer(tok, now, token_bl, users).status # 200
        /\ Refresh(tok)) =>
         /\ auth_out'.status # 200
         /\ token_bl' = token_bl
         /\ issued' = issued
         /\ auth_out'.access = NoToken /\ auth_out'.refresh = NoToken]_vars

\* a refresh token that verifies was refused because its user is deleted,
\* and it is still not revoked
C27_Witness ==
  /\ auth_out.op = "refresh" /\ auth_out.status = 404
  /\ \E tok \in issued :
       /\ tok.type = "refresh" /\ tok.sub \in gone
       /\ tok.jti \notin token_bl

\* C29: once the account of a user is deleted, none of the tokens issued for
\* that user passes require_auth or is exchanged by auth_refresh.
C29_DeletedUserTokensDead ==
  \A tok \in issued :
    tok.sub \in gone =>
      /\ RequireAuth(tok, now, token_bl).status # 200
      /\ RefreshAnswer(tok, now, token_bl, users).status # 200

\* two code logins for one phone with the code of the challenge stored for
\* it, one started while the other was in flight, both read the clock no
\* later than the expiry of the challenge, both answered
VerifyRace(a, b) ==
  /\ a # b
  /\ req[a].op = "verify" /\ req[b].op = "verify"
  /\ req[a].phone = req[b].phone
  /\ req[a].pc = "done" /\ req[b].pc = "done"
  /\ req[a].pre /\ req[b].pre
  /\ a \in req[b].with
  /\ req[a].seen = req[b].seen
  /\ req[a].code = req[a].seen.code /\ req[b].code = req[b].seen.code
  /\ req[a].t <= req[a].seen.expiry /\ req[b].t <= req[b].seen.expiry

\* C28 as stated: of two racing code logins with the correct code, exactly
\* one succeeds and the other is refused with NotFound.
C28_ExactlyOneLogin ==
  \A a, b \in Threads :
    VerifyRace(a, b) =>
      \E w, l \in {a, b} :
        /\ w # l
        /\ req[w].result = "ok"
        /\ req[l].result = "NotFound"

\* C28: of two racing code logins with the correct code, the one that takes
\* the lock second is refused with NotFound, and the record is gone; the
\* first succeeds when fewer than OTP_MAX_ATTEMPTS verifications were counted
\* before, and is refused with TooManyAttempts otherwise, so at most one
\* succeeds.
C28_AtMostOneLogin ==
  \A a, b \in Threads :
    VerifyRace(a, b) =>
      \E w, l \in {a, b} :
        /\ w # l
        /\ req[w].result = IF req[w].seen.attempts < OTP_MAX_ATTEMPTS THEN "ok"
                           ELSE "TooManyAttempts"
        /\ req[l].result = "NotFound"
        /\ req[w].phone \notin DOMAIN otp_store

\* C28 witness: the login that started later took the lock first and won
C28_Witness ==
  \E a, b \in Threads :
    /\ VerifyRace(a, b)
    /\ req[b].result = "ok"
    /\ req[a].result = "NotFound"
    /\ req[a].t < req[b].t

====
